---- MODULE Spec2Model ----
(***************************************************************************)
(* State-machine model of the Streamlit lab pages of document-qa-2-hw:     *)
(* lab3 (interactive chatbot with a conversation buffer), lab4 (URL        *)
(* chatbot with three memory types), lab5 (weather tool round-trip), lab6  *)
(* (fact checker with a result history), and the two document question     *)
(* answering pages lab1 and streamlit_app.                                 *)
(*                                                                         *)
(* A text is a sequence of symbols.  A symbol is one character ("y", " ")  *)
(* or one fixed passage (a literal of the program such as the follow-up    *)
(* suffix, or a long passage typed by the user or produced by the model).  *)
(* A message is a record [role, content].                                  *)
(***************************************************************************)
EXTENDS Integers, Sequences, FiniteSets, TLC

\* ------------------------------------------------------------- bounds
\* Longest session history (lab3/lab4) the model explores.
MaxMsgs == 6
\* Longest history handed to the buffer policies in SpecBuffer.
MaxHist == 22
\* longest model output enumerated exhaustively (lab6)
MaxOut == 3
\* most entries claim_history grows to (lab6)
MaxChecks == 2
\* most pages of an uploaded PDF (lab1, streamlit_app)
MaxPages == 3

\* ---------------------------------------------------- program constants
Lab3Count == 20
Lab4Count == 6
Lab4Budget == 2000

Min(a, b) == IF a < b THEN a ELSE b
Max(a, b) == IF a > b THEN a ELSE b

\* ---------------------------------------------------------------- text
Msg(r, c) == [role |-> r, content |-> c]

\* list[:-1]
AllButLast(s) == IF Len(s) = 0 THEN s ELSE SubSeq(s, 1, Len(s) - 1)

\* str.lower() on one symbol (passages are lower-case already)
LowerSym(c) ==
    CASE c = "Y" -> "y" [] c = "E" -> "e" [] c = "S" -> "s"
      [] c = "O" -> "o" [] c = "K" -> "k" [] c = "N" -> "n"
      [] OTHER -> c

Lower(t) == [i \in 1..Len(t) |-> LowerSym(t[i])]

RECURSIVE LStrip(_)
LStrip(t) == IF Len(t) > 0 /\ t[1] = " " THEN LStrip(Tail(t)) ELSE t

RECURSIVE RStrip(_)
RStrip(t) == IF Len(t) > 0 /\ t[Len(t)] = " " THEN RStrip(AllButLast(t)) ELSE t

\* str.strip()
Strip(t) == RStrip(LStrip(t))

\* Tokens of one symbol under an encoding: a character is one token, a
\* passage has the token count of its text.
Tok(c, enc) ==
    CASE c = "LONGQ" -> 900
      [] c = "LONGR" -> 1100
      [] c = "HUGE" -> 2001
      [] c = "PASSAGE" -> IF enc = "o200k_base" THEN 50 ELSE 60
      [] c = "MORE_INFO" -> 9
      [] c = "CLOSING" -> 10
      [] OTHER -> 1

\* tiktoken.encoding_for_model with the KeyError fallback to cl100k_base
EncodingFor(model) ==
    IF model \in {"gpt-5-chat-latest", "gpt-4o-mini", "gpt-5-nano"}
    THEN "o200k_base" ELSE "cl100k_base"

RECURSIVE SumTok(_, _)
SumTok(t, enc) == IF Len(t) = 0 THEN 0 ELSE Tok(t[1], enc) + SumTok(Tail(t), enc)

\* len(encoding.encode(text))
get_token_count(text, model) == SumTok(text, EncodingFor(model))

\* ------------------------------------------------- conversation buffer
\* Count policy: messages[-K:]
CountBufferHead(H, K) == SubSeq(H, 1, Min(K, Len(H)))

CountBuffer(H, K) == SubSeq(H, Max(1, Len(H) - K + 1), Len(H))

\* the walk when the budget is tested before the message is counted
RECURSIVE TokenWalkOvershoot(_, _, _, _, _, _)
TokenWalkOvershoot(H, i, buf, cur, B, model) ==
    IF i = 0 THEN [buf |-> buf, tokens |-> cur]
    ELSE LET msg_tokens == get_token_count(H[i].content, model) IN
         IF cur <= B
         THEN TokenWalkOvershoot(H, i - 1, <<H[i]>> \o buf, cur + msg_tokens, B, model)
         ELSE [buf |-> buf, tokens |-> cur]

\* Token policy: walk reversed(H); i is the index examined, buf the
\* messages inserted at the front so far, cur the running token count.
RECURSIVE TokenWalk(_, _, _, _, _, _)
TokenWalk(H, i, buf, cur, B, model) ==
    IF i = 0 THEN [buf |-> buf, tokens |-> cur]
    ELSE LET msg_tokens == get_token_count(H[i].content, model) IN
         IF cur + msg_tokens <= B
         THEN TokenWalk(H, i - 1, <<H[i]>> \o buf, cur + msg_tokens, B, model)
         ELSE [buf |-> buf, tokens |-> cur]

\* the walk with `continue` in place of `break`
RECURSIVE TokenWalkSkip(_, _, _, _, _, _)
TokenWalkSkip(H, i, buf, cur, B, model) ==
    IF i = 0 THEN [buf |-> buf, tokens |-> cur]
    ELSE LET msg_tokens == get_token_count(H[i].content, model) IN
         IF cur + msg_tokens <= B
         THEN TokenWalkSkip(H, i - 1, <<H[i]>> \o buf, cur + msg_tokens, B, model)
         ELSE TokenWalkSkip(H, i - 1, buf, cur, B, model)

TokenBufferSkip(H, B, model) == TokenWalkSkip(H, Len(H), <<>>, 0, B, model)

TokenBuffer(H, B, model) == TokenWalk(H, Len(H), <<>>, 0, B, model)

\* Sum of the per-message token counts of a message list
RECURSIVE TokensOf(_, _)
TokensOf(H, model) ==
    IF Len(H) = 0 THEN 0
    ELSE get_token_count(H[1].content, model) + TokensOf(Tail(H), model)

\* the history when the prompt is stored under the assistant's role
AppendUserAsAssistant(ms, prompt) == Append(ms, Msg("assistant", prompt))

\* the history cut to its last two messages on every append
AppendUserTrimmed(ms, prompt) == CountBuffer(Append(ms, Msg("user", prompt)), 2)

\* st.session_state.messages.append({"role": "user", "content": prompt})
AppendUser(ms, prompt) == Append(ms, Msg("user", prompt))

IsPrefix(s, t) == Len(s) <= Len(t) /\ SubSeq(t, 1, Len(s)) = s
IsSuffix(s, t) == Len(s) <= Len(t) /\ SubSeq(t, Len(t) - Len(s) + 1, Len(t)) = s


\* ---------------------------------------------------------------- state
VARIABLES
    app,                  \* the page this session runs: "lab3", "lab4", ...
    secrets,              \* names of the keys present in st.secrets
    messages,             \* st.session_state.messages
    last_question,        \* st.session_state.last_question: <<>> is None, <<q>> is q
    conversation_summary, \* st.session_state.conversation_summary ("" is <<>>)
    token_count,          \* st.session_state.token_count
    buffer_type,          \* lab3 sidebar radio
    max_tokens,           \* lab3 sidebar number input (0 unless "Token Limit")
    llm_provider,         \* lab4 sidebar selectbox
    memory_type,          \* lab4 sidebar radio
    url1, url2,           \* lab4 sidebar text inputs ("" is empty)
    vendor,               \* lab5 sidebar selectbox
    user_input,           \* lab5 text input
    request,              \* message list of the last chat-completion request
    calls,                \* completion calls issued by the last user action
    outcome,              \* what the last user action rendered
    summary_src,          \* how many messages the stored summary was made from
    first_response,       \* lab5: content blocks of the first model response
    weather_calls,        \* lab5: arguments of each get_current_weather call
    second_messages,      \* lab5: message list of the second completion call
    result,               \* lab5: <<>> is None, <<t>> is the returned text t
    weather_reply,        \* lab5: how the weather lookup of the last action went
    stream,               \* lab4: what the provider stream of the last turn did
    claim_history,        \* lab6: st.session_state.claim_history
    user_claim,           \* lab6: the claim text input
    output_text,          \* lab6: <<>> is None, <<t>> is the model output t
    shown,                \* lab6: what the last "Check Fact" run rendered
    raw_shown,            \* lab6: the raw text rendered by st.text
    doc_key,              \* document pages: the API key text input
    uploaded_file,        \* document pages: <<>> is None, <<f>> is the file f
    question,             \* document pages: the question text area
    document,             \* document pages: <<>> is None, <<d>> is the text d
    doc_request,          \* document pages: requests issued by the last run
    doc_shown,            \* document pages: what the last run rendered
    bufH, bufPolicy, bufLimit, bufOut   \* SpecBuffer: input history and output

sessionVars == <<messages, last_question, conversation_summary, token_count>>
lab3Widgets == <<buffer_type, max_tokens>>
lab4Widgets == <<llm_provider, memory_type, url1, url2>>
lab5Widgets == <<vendor, user_input>>
obsVars     == <<request, calls, outcome, summary_src, stream>>
toolVars    == <<first_response, weather_calls, second_messages, result,
                 weather_reply>>
lab6Vars    == <<claim_history, user_claim, output_text, shown, raw_shown>>
docVars     == <<doc_key, uploaded_file, question, document, doc_request,
                 doc_shown>>
bufVars     == <<bufH, bufPolicy, bufLimit, bufOut>>
vars == <<app, secrets, sessionVars, lab3Widgets, lab4Widgets, lab5Widgets,
          obsVars, toolVars, bufVars, lab6Vars, docVars>>

AllKeys == {"OPENAI_API_KEY", "GOOGLE_API_KEY", "ANTHROPIC_API_KEY",
            "OPENWEATHER_API_KEY"}
\* deployments considered: every key set, or a key the page reads missing
SecretSets(a) ==
    {AllKeys, AllKeys \ {"OPENAI_API_KEY"}}
    \cup (IF a = "lab5" THEN {AllKeys \ {"OPENWEATHER_API_KEY"}} ELSE {})

CountType   == "Message Count (Default)"
TokenType   == "Token Limit"
Mem6        == "Buffer of 6 messages"
MemSummary  == "Conversation Summary"
MemTokens   == "Buffer of 2,000 tokens"

InitCommon ==
    /\ messages = <<>>
    /\ last_question = <<>>
    /\ conversation_summary = <<>>
    /\ token_count = 0
    /\ buffer_type = CountType
    /\ max_tokens = 0
    /\ llm_provider = "OpenAI"
    /\ memory_type = Mem6
    /\ url1 = ""
    /\ url2 = ""
    /\ vendor = "OpenAI"
    /\ user_input = "What should I wear in Syracuse today?"
    /\ request = <<>>
    /\ calls = 0
    /\ outcome = "idle"
    /\ summary_src = 0
    /\ first_response = <<>>
    /\ weather_calls = <<>>
    /\ second_messages = <<>>
    /\ result = <<>>
    /\ bufPolicy = "none"
    /\ bufLimit = 0
    /\ bufOut = <<>>
    /\ weather_reply = "none"
    /\ stream = <<>>
    /\ claim_history = <<>>
    /\ user_claim = <<>>
    /\ output_text = <<>>
    /\ shown = "idle"
    /\ raw_shown = <<>>
    /\ doc_key = ""
    /\ uploaded_file = <<>>
    /\ question = <<>>
    /\ document = <<>>
    /\ doc_request = <<>>
    /\ doc_shown = <<>>

\* A rerun that issues no request (a widget change) renders none.
NoRequest ==
    /\ request' = <<>>
    /\ calls' = 0
    /\ outcome' = "idle"
    /\ stream' = <<>>
    /\ UNCHANGED summary_src

Init ==
    /\ app \in {"lab3", "lab4", "lab5"}
    /\ secrets \in SecretSets(app)
    /\ bufH = <<>>
    /\ InitCommon

\* ================================================================ lab3
YesWords == { <<"y","e","s">>, <<"y","e","p">>, <<"s","u","r","e">>,
              <<"o","k">>, <<"o","k","a","y">>,
              <<"p","l","e","a","s","e"," ","d","o">> }
NoWords  == { <<"n","o">>, <<"n","o","p","e">>, <<"n","a","h">>,
              <<"n","o"," ","t","h","a","n","k","s">> }

\* what the user may type into lab3's chat input (never empty)
Lab3Prompts == { <<"LONGQ">>, <<" ","Y","E","S">>, <<"n","o">> }
\* what st.write_stream may return
Lab3Responses == { <<"r">>, <<"LONGR">> }
Lab3ApiOutcomes ==
    {[ok |-> FALSE, text |-> <<>>]} \cup {[ok |-> TRUE, text |-> r] : r \in Lab3Responses}
MaxTokensChoices == {100}

Lab3Model == "gpt-5-chat-latest"

\* f"Please provide more detailed information about: '{last_question}'"
DetailPrompt(q) == <<"DETAIL_ABOUT", "'">> \o q \o <<"'">>
\* response_stream + "\n\n**DO YOU WANT MORE INFO?**"
WithFollowUp(r) == r \o <<"MORE_INFO">>
ClosingText == <<"CLOSING">>

\* st.rerun() raises a script-control exception that `except Exception`
\* does not catch: the run ends at that line.
RerunEndsRun == TRUE

Lab3SelectBuffer(bt) ==
    /\ app = "lab3"
    /\ bt # buffer_type
    /\ buffer_type' = bt
    /\ max_tokens' = IF bt = TokenType THEN 1000 ELSE 0
    /\ NoRequest
    /\ UNCHANGED <<lab6Vars, docVars, app, secrets, sessionVars, lab4Widgets, lab5Widgets,
                   toolVars, bufVars>>

Lab3SetMaxTokens(v) ==
    /\ app = "lab3"
    /\ buffer_type = TokenType
    /\ v # max_tokens
    /\ max_tokens' = v
    /\ NoRequest
    /\ UNCHANGED <<lab6Vars, docVars, app, secrets, sessionVars, buffer_type, lab4Widgets,
                   lab5Widgets, toolVars, bufVars>>

\* messages_to_send of lab3 for the history H (the new prompt included)
Lab3Buffer(H, bt, mt) ==
    IF bt = TokenType
    THEN TokenBuffer(H, mt, Lab3Model).buf
    ELSE CountBuffer(H, Lab3Count)

\* messages_for_api when the buffer is sent whole, the raw prompt included
Lab3RequestWithRaw(H, api_prompt) ==
    Lab3Buffer(H, buffer_type, max_tokens) \o <<Msg("user", api_prompt)>>

\* messages_for_api
Lab3Request(H, api_prompt) ==
    AllButLast(Lab3Buffer(H, buffer_type, max_tokens)) \o <<Msg("user", api_prompt)>>

\* One submitted chat message.  api.ok = FALSE: create or the stream raises;
\* otherwise api.text is what st.write_stream returned.
Lab3Submit(prompt, api) ==
    /\ app = "lab3"
    /\ Len(messages) + 2 <= MaxMsgs
    /\ IF "OPENAI_API_KEY" \notin secrets
       THEN /\ outcome' = "nokey"
            /\ UNCHANGED <<sessionVars, request, calls, summary_src>>
       ELSE LET H == AppendUser(messages, prompt)
                norm == Strip(Lower(prompt))
                pending == Len(last_question) > 0
                is_yes_response == pending /\ norm \in YesWords
                is_no_response == pending /\ norm \in NoWords
                api_prompt == IF is_yes_response
                              THEN DetailPrompt(last_question[1]) ELSE prompt
            IN  IF is_no_response
                THEN /\ last_question' = <<>>
                     /\ messages' = Append(H, Msg("assistant", ClosingText))
                     /\ outcome' = "closing"
                     /\ calls' = 0
                     /\ UNCHANGED <<request, conversation_summary, token_count,
                                    summary_src>>
                ELSE /\ request' = Lab3Request(H, api_prompt)
                     /\ calls' = 1
                     /\ IF ~api.ok
                        THEN /\ messages' = H
                             /\ last_question' = last_question
                             /\ outcome' = "error"
                        ELSE /\ messages' = Append(H, Msg("assistant", WithFollowUp(api.text)))
                             /\ last_question' =
                                   IF RerunEndsRun THEN last_question
                                   ELSE IF is_yes_response THEN last_question
                                   ELSE <<prompt>>
                             /\ outcome' = "answer"
                     /\ UNCHANGED <<conversation_summary, token_count, summary_src>>
    /\ UNCHANGED <<lab6Vars, docVars, app, secrets, lab3Widgets, lab4Widgets, lab5Widgets,
                   toolVars, bufVars, stream>>

Lab3Next ==
    \/ \E bt \in {CountType, TokenType} : Lab3SelectBuffer(bt)
    \/ \E v \in MaxTokensChoices \cup {1000} : Lab3SetMaxTokens(v)
    \/ \E p \in Lab3Prompts, api \in Lab3ApiOutcomes : Lab3Submit(p, api)


\* ================================================================ lab4
Providers == {"OpenAI", "Google Gemini", "Anthropic Claude"}
MemoryTypes == {Mem6, MemSummary, MemTokens}

\* LLM_CONFIG[provider]["secret_key"]
SecretKeyOf(p) ==
    CASE p = "OpenAI" -> "OPENAI_API_KEY"
      [] p = "Google Gemini" -> "GOOGLE_API_KEY"
      [] OTHER -> "ANTHROPIC_API_KEY"

\* the model selectbox at its default: the provider's first model
SelectedModel(p) ==
    CASE p = "OpenAI" -> "gpt-4o-mini"
      [] p = "Google Gemini" -> "gemini-2.5-flash-lite"
      [] OTHER -> "claude-3-5-haiku-20241022"

\* what the user may type into lab4's chat input (never empty)
Lab4Prompts == { <<"q">>, <<"LONGQ">> }

\* A URL text input: empty, a page that loads, a host that fails.
UrlChoices == { <<"", "">>, <<"bad", "good">> }

\* fetch_url_content: the page text, or None after a request error
fetch_url_content(url) == IF url = "good" THEN <<"PAGE">> ELSE <<"None">>

UrlContext(u1, u2) ==
    <<"CONTENT FROM URL 1:">> \o (IF u1 # "" THEN fetch_url_content(u1) ELSE <<>>)
    \o <<"CONTENT FROM URL 2:">> \o (IF u2 # "" THEN fetch_url_content(u2) ELSE <<>>)

\* A stream chunk: has = FALSE is a chunk that carries no text.
Chunk(t) == [has |-> TRUE, text |-> t]
NoText == [has |-> FALSE, text |-> <<>>]
ChunkSeqs == { <<Chunk(<<"LONGR">>)>>,
               <<Chunk(<<"r">>), NoText, Chunk(<<"s">>)>> }
\* create raises; or the chunks arrive and then the stream ends or raises
StreamOutcomes ==
    {[created |-> FALSE, chunks |-> <<>>, broke |-> FALSE]}
    \cup {[created |-> TRUE, chunks |-> cs, broke |-> b] :
            cs \in ChunkSeqs, b \in BOOLEAN}
\* the summarization call raises, or returns this text
SummaryOutcomes ==
    {[ok |-> FALSE, text |-> <<>>]}
    \cup {[ok |-> TRUE, text |-> <<"SUMMARY">>]}

SystemPromptText == <<"SYS">>
SummaryIntro == <<"Here is a summary of the conversation so far: ">>

\* history_buffer and the token count of the walk
Lab4Buffer(history, mem, model) ==
    CASE mem = Mem6 -> CountBuffer(history, Lab4Count)
      [] mem = MemTokens -> TokenBuffer(history, Lab4Budget, model).buf
      [] OTHER -> <<>>

Lab4TokenCount(history, mem, model) ==
    IF mem = MemTokens THEN TokenBuffer(history, Lab4Budget, model).tokens ELSE 0

RECURSIVE JoinLines(_)
\* "\n".join(f"{msg['role']}: {msg['content']}" for msg in buf)
JoinLines(buf) ==
    IF Len(buf) = 0 THEN <<>>
    ELSE <<buf[1].role, ": ">> \o buf[1].content
         \o (IF Len(buf) > 1 THEN <<"\n">> ELSE <<>>) \o JoinLines(Tail(buf))

UserTurn(u1, u2, prompt) ==
    Msg("user", <<"CONTEXT:">> \o UrlContext(u1, u2) \o <<"QUESTION:">> \o prompt)

\* final_messages_for_api that never takes the summary branch
FinalMessagesNoSummary(buf, mem, summary, u1, u2, prompt) ==
    <<Msg("system", SystemPromptText)>> \o buf \o <<UserTurn(u1, u2, prompt)>>

\* final_messages_for_api (OpenAI, and Claude before the system split)
FinalMessages(buf, mem, summary, u1, u2, prompt) ==
    <<Msg("system", SystemPromptText)>>
    \o (IF mem = MemSummary /\ Len(summary) > 0
        THEN <<Msg("system", SummaryIntro \o summary)>>
        ELSE buf)
    \o <<UserTurn(u1, u2, prompt)>>

\* gemini_prompt, sent as one string
GeminiPrompt(buf, mem, summary, u1, u2, prompt) ==
    <<Msg("prompt",
          SystemPromptText
          \o (IF mem = MemSummary /\ Len(summary) > 0
              THEN <<"CONVERSATION SUMMARY:">> \o summary
              ELSE JoinLines(buf))
          \o <<"CONTEXT FROM URLS:">> \o UrlContext(u1, u2)
          \o <<"USER QUESTION:">> \o prompt)>>

RECURSIVE JoinSystem(_)
\* "\n\n".join of the contents of the system messages
JoinSystem(ms) ==
    IF Len(ms) = 0 THEN <<>>
    ELSE IF ms[1].role = "system"
         THEN ms[1].content
              \o (IF \E i \in 2..Len(ms) : ms[i].role = "system"
                  THEN <<"\n\n">> ELSE <<>>)
              \o JoinSystem(Tail(ms))
         ELSE JoinSystem(Tail(ms))

\* Claude: the system contents joined (first element), then claude_messages
ClaudeRequest(final) ==
    <<Msg("system", JoinSystem(final))>>
    \o SelectSeq(final, LAMBDA m : m.role # "system")

Lab4Request(p, buf, mem, summary, u1, u2, prompt) ==
    CASE p = "Google Gemini" -> GeminiPrompt(buf, mem, summary, u1, u2, prompt)
      [] p = "Anthropic Claude" ->
            ClaudeRequest(FinalMessages(buf, mem, summary, u1, u2, prompt))
      [] OTHER -> FinalMessages(buf, mem, summary, u1, u2, prompt)

RECURSIVE ConsumeNewestFirst(_, _, _)
\* the loop when each chunk is put in front of the accumulated text
ConsumeNewestFirst(p, chunks, acc) ==
    IF Len(chunks) = 0 THEN [ok |-> TRUE, text |-> acc]
    ELSE IF chunks[1].has
         THEN ConsumeNewestFirst(p, Tail(chunks), chunks[1].text \o acc)
         ELSE IF p = "Google Gemini"
              THEN [ok |-> FALSE, text |-> acc]
              ELSE ConsumeNewestFirst(p, Tail(chunks), acc)

\* Consuming the stream: the text accumulated, or a raise.  Gemini's
\* chunk.text raises on a chunk without text; the others skip it.
RECURSIVE Consume(_, _, _)
Consume(p, chunks, acc) ==
    IF Len(chunks) = 0 THEN [ok |-> TRUE, text |-> acc]
    ELSE IF chunks[1].has
         THEN Consume(p, Tail(chunks), acc \o chunks[1].text)
         ELSE IF p = "Google Gemini"
              THEN [ok |-> FALSE, text |-> acc]
              ELSE Consume(p, Tail(chunks), acc)

\* The history after the try block: the assistant message is appended only
\* once the stream has been consumed to its end.
Lab4StoredPartial(H, got, answered) == Append(H, Msg("assistant", got.text))

Lab4Stored(H, got, answered) ==
    IF answered THEN Append(H, Msg("assistant", got.text)) ELSE H

Lab4SelectProvider(p) ==
    /\ app = "lab4"
    /\ p # llm_provider
    /\ llm_provider' = p
    /\ NoRequest
    /\ UNCHANGED <<lab6Vars, docVars, app, secrets, sessionVars, lab3Widgets, memory_type, url1,
                   url2, lab5Widgets, toolVars, bufVars>>

Lab4SelectMemory(m) ==
    /\ app = "lab4"
    /\ m # memory_type
    /\ memory_type' = m
    /\ NoRequest
    /\ UNCHANGED <<lab6Vars, docVars, app, secrets, sessionVars, lab3Widgets, llm_provider, url1,
                   url2, lab5Widgets, toolVars, bufVars>>

Lab4SetUrls(u1, u2) ==
    /\ app = "lab4"
    /\ <<u1, u2>> # <<url1, url2>>
    /\ url1' = u1
    /\ url2' = u2
    /\ NoRequest
    /\ UNCHANGED <<lab6Vars, docVars, app, secrets, sessionVars, lab3Widgets, llm_provider,
                   memory_type, lab5Widgets, toolVars, bufVars>>

\* One submitted chat message.
Lab4Submit(prompt, st, sm) ==
    /\ app = "lab4"
    /\ Len(messages) + 2 <= MaxMsgs
    /\ IF SecretKeyOf(llm_provider) \notin secrets
       THEN /\ outcome' = "nokey"
            /\ stream' = <<>>
            /\ UNCHANGED <<sessionVars, request, calls, summary_src>>
       ELSE IF url1 = "" /\ url2 = ""
       THEN /\ outcome' = "nourl"
            /\ stream' = <<>>
            /\ UNCHANGED <<sessionVars, request, calls, summary_src>>
       ELSE LET H == AppendUser(messages, prompt)
                history == AllButLast(H)
                model == SelectedModel(llm_provider)
                history_buffer == Lab4Buffer(history, memory_type, model)
                got == IF st.created
                       THEN Consume(llm_provider, st.chunks, <<>>)
                       ELSE [ok |-> FALSE, text |-> <<>>]
                answered == got.ok /\ ~st.broke
                H2 == Lab4Stored(H, got, answered)
                summarize == memory_type = MemSummary
                             /\ "OPENAI_API_KEY" \in secrets
            IN  /\ token_count' = Lab4TokenCount(history, memory_type, model)
                /\ stream' = <<st>>
                /\ request' = Lab4Request(llm_provider, history_buffer,
                                  memory_type, conversation_summary,
                                  url1, url2, prompt)
                /\ last_question' = last_question
                /\ IF ~answered
                   THEN /\ messages' = H2
                        /\ calls' = 1
                        /\ outcome' = "error"
                        /\ UNCHANGED <<conversation_summary, summary_src>>
                   ELSE /\ messages' = H2
                        /\ IF ~summarize
                           THEN /\ calls' = 1
                                /\ outcome' = "answer"
                                /\ UNCHANGED <<conversation_summary, summary_src>>
                           ELSE /\ calls' = 2
                                /\ IF ~sm.ok
                                   THEN /\ outcome' = "error"
                                        /\ UNCHANGED <<conversation_summary,
                                                       summary_src>>
                                   ELSE /\ outcome' = "answer"
                                        /\ conversation_summary' = sm.text
                                        /\ summary_src' = Len(H2)
    /\ UNCHANGED <<lab6Vars, docVars, app, secrets, lab3Widgets, lab4Widgets, lab5Widgets,
                   toolVars, bufVars>>

Lab4Next ==
    \/ \E p \in Providers : Lab4SelectProvider(p)
    \/ \E m \in MemoryTypes : Lab4SelectMemory(m)
    \/ \E u \in UrlChoices : Lab4SetUrls(u[1], u[2])
    \/ \E p \in Lab4Prompts, st \in StreamOutcomes, sm \in SummaryOutcomes :
          Lab4Submit(p, st, sm)

\* ================================================================ lab5
Vendors == {"OpenAI", "Anthropic", "Google"}
DefaultQuestion == "What should I wear in Syracuse today?"

\* json.dumps / json.loads: a serialized value is a string, not the value
JsonDumps(v) == [json |-> v]
JsonLoads(j) == j.json

\* Content blocks of a model response (OpenAI: content and tool_calls,
\* Anthropic: content blocks, Google: parts).
TextBlock(t) == [type |-> "text", text |-> t, id |-> "", args |-> <<>>]
ToolBlock(id, a) == [type |-> "tool_use", text |-> <<>>, id |-> id, args |-> <<a>>]
ArgsParis == [location |-> "Paris", unit |-> "celsius"]
ArgsOslo == [location |-> "oslo, NO", unit |-> "Fahrenheit"]
FirstResponses(v) ==
    { <<TextBlock(<<"ANSWER">>)>>,
      <<ToolBlock("call_1", ArgsParis)>>,
      <<TextBlock(<<"PREAMBLE">>), ToolBlock("call_1", ArgsOslo)>>,
      <<ToolBlock("call_1", ArgsParis), ToolBlock("call_2", ArgsOslo)>> }
    \cup (IF v = "Google" THEN { <<>> } ELSE {})

ToolCalls(blocks) == SelectSeq(blocks, LAMBDA b : b.type = "tool_use")
TextBlocks(blocks) == SelectSeq(blocks, LAMBDA b : b.type = "text")

\* str.capitalize() and str.lower() on the strings that occur
Capitalize(x) == IF x = "oslo, NO" THEN "Oslo, no" ELSE x
LowerWord(x) == IF x = "Fahrenheit" THEN "fahrenheit" ELSE x

\* The weather API: requests.get raises, answers non-200, or answers 200
\* with a temperature in hundredths of a kelvin.
WeatherOutcomes == { [kind |-> "raise", temp |-> 0], [kind |-> "non200", temp |-> 0],
                     [kind |-> "ok", temp |-> 29315] }

WeatherError(msg) ==
    [error |-> msg, location |-> "", temperature |-> <<>>, description |-> ""]

\* the lookup when a missing key or a non-200 answer raises instead
get_current_weather_strict(args, w, keys) ==
    IF "OPENWEATHER_API_KEY" \notin keys \/ w.kind # "ok"
    THEN [raised |-> TRUE, value |-> WeatherError("")]
    ELSE [raised |-> FALSE,
          value |-> [error |-> "",
                     location |-> Capitalize(args.location),
                     temperature |-> <<w.temp - 27315, "Celsius">>,
                     description |-> "Clear Sky"]]

\* get_current_weather(**args): [raised, value]; temperatures in hundredths
get_current_weather(args, w, keys) ==
    IF "OPENWEATHER_API_KEY" \notin keys
    THEN [raised |-> FALSE, value |-> WeatherError("OpenWeather API key not found in secrets.")]
    ELSE IF w.kind = "raise"
    THEN [raised |-> TRUE, value |-> WeatherError("")]
    ELSE IF w.kind = "non200"
    THEN [raised |-> FALSE, value |-> WeatherError("API request failed for location")]
    ELSE LET celsius == w.temp - 27315 IN
         [raised |-> FALSE,
          value |-> [error |-> "",
                     location |-> Capitalize(args.location),
                     temperature |->
                        IF LowerWord(args.unit) = "fahrenheit"
                        THEN <<(celsius * 9) \div 5 + 3200, "Fahrenheit">>
                        ELSE <<celsius, "Celsius">>,
                     description |-> "Clear Sky"]]

\* Entries of the second call's message list
TextMsg(r, t) == [role |-> r, kind |-> "text", payload |-> t]
ToolCallRecord(r, blocks) == [role |-> r, kind |-> "tool_calls", payload |-> blocks]
ToolResult(r, id, c) ==
    [role |-> r, kind |-> "tool_result", payload |-> [id |-> id, content |-> c]]

Returned(t, n, second, w) ==
    [raised |-> FALSE, result |-> <<t>>, calls |-> n, second |-> second, weather |-> w]
ReturnedNone(n, w) ==
    [raised |-> FALSE, result |-> <<>>, calls |-> n, second |-> <<>>, weather |-> w]
Raised(n, second, w) ==
    [raised |-> TRUE, result |-> <<>>, calls |-> n, second |-> second, weather |-> w]

\* run_openai_conversation after a first response with these blocks
run_openai_conversation(q, blocks, w, snd, keys) ==
    LET tool_calls == ToolCalls(blocks)
        content == TextBlocks(blocks)
    IN  IF Len(tool_calls) > 0
        THEN LET tool_call == tool_calls[1]
                 function_args == JsonLoads(JsonDumps(tool_call.args[1]))
                 fr == get_current_weather(function_args, w, keys)
                 msgs == << TextMsg("system", <<"WEATHER_SYS">>), TextMsg("user", q),
                            ToolCallRecord("assistant", blocks),
                            ToolResult("tool", tool_call.id, JsonDumps(fr.value)) >>
             IN  IF fr.raised THEN Raised(1, <<>>, <<function_args>>)
                 ELSE IF ~snd.ok THEN Raised(2, msgs, <<function_args>>)
                 ELSE Returned(snd.text, 2, msgs, <<function_args>>)
        ELSE IF Len(content) > 0 THEN Returned(content[1].text, 1, <<>>, <<>>)
        ELSE ReturnedNone(1, <<>>)

\* run_anthropic_conversation; stop_reason is "tool_use" when a tool_use
\* block is present
run_anthropic_conversation(q, blocks, w, snd, keys) ==
    LET tool_calls == ToolCalls(blocks) IN
    IF Len(tool_calls) > 0
    THEN LET tool_call == tool_calls[1]
             function_args == tool_call.args[1]
             fr == get_current_weather(function_args, w, keys)
             msgs == << TextMsg("user", q),
                        ToolCallRecord("assistant", blocks),
                        ToolResult("user", tool_call.id, JsonDumps(fr.value)) >>
         IN  IF fr.raised THEN Raised(1, <<>>, <<function_args>>)
             ELSE IF ~snd.ok THEN Raised(2, msgs, <<function_args>>)
             ELSE Returned(snd.text, 2, msgs, <<function_args>>)
    ELSE IF blocks[1].type = "text" THEN Returned(blocks[1].text, 1, <<>>, <<>>)
    ELSE Raised(1, <<>>, <<>>)

\* run_google_conversation.  fcRaises: reading function_call of a part
\* that holds none raises AttributeError (otherwise it reads as a call
\* with an empty name).  typesOk: genai.types offers Content, Part and
\* FunctionResponse (otherwise building the second message raises
\* AttributeError, which the handler's own except clause catches).
run_google_conversation(q, blocks, w, snd, keys, fcRaises, typesOk) ==
    IF Len(blocks) = 0
    THEN Raised(1, <<>>, <<>>)
    ELSE IF blocks[1].type # "tool_use"
    THEN IF fcRaises THEN Returned(blocks[1].text, 1, <<>>, <<>>)
         ELSE ReturnedNone(1, <<>>)
    ELSE LET args == blocks[1].args[1]
             fr == get_current_weather(args, w, keys)
             msgs == << TextMsg("user", <<"WEATHER_SYS", "USER QUESTION: ">> \o q),
                        ToolCallRecord("model", blocks),
                        ToolResult("user", "get_current_weather", fr.value) >>
         IN  IF fr.raised THEN Raised(1, <<>>, <<args>>)
             ELSE IF ~typesOk THEN Returned(blocks[1].text, 1, <<>>, <<args>>)
             ELSE IF ~snd.ok THEN Raised(2, msgs, <<args>>)
             ELSE Returned(snd.text, 2, msgs, <<args>>)

VendorKey(v) ==
    CASE v = "OpenAI" -> "OPENAI_API_KEY"
      [] v = "Anthropic" -> "ANTHROPIC_API_KEY"
      [] OTHER -> "GOOGLE_API_KEY"

ApiOutcomes == { [ok |-> FALSE, text |-> <<>>], [ok |-> TRUE, text |-> <<"FINAL">>] }
FirstOutcomes(v) ==
    { [ok |-> FALSE, blocks |-> <<>>] }
    \cup { [ok |-> TRUE, blocks |-> b] : b \in FirstResponses(v) }

ResetTool ==
    /\ first_response' = <<>>
    /\ weather_calls' = <<>>
    /\ second_messages' = <<>>
    /\ result' = <<>>
    /\ weather_reply' = "none"

Lab5SelectVendor(v) ==
    /\ app = "lab5"
    /\ v # vendor
    /\ vendor' = v
    /\ NoRequest
    /\ ResetTool
    /\ UNCHANGED <<lab6Vars, docVars, app, secrets, sessionVars, lab3Widgets, lab4Widgets,
                   user_input, bufVars>>

Lab5SetInput(t) ==
    /\ app = "lab5"
    /\ t # user_input
    /\ user_input' = t
    /\ NoRequest
    /\ ResetTool
    /\ UNCHANGED <<lab6Vars, docVars, app, secrets, sessionVars, lab3Widgets, lab4Widgets,
                   vendor, bufVars>>

\* The "Get Suggestion" button.
Lab5GetSuggestion(fst, w, snd, fcRaises, typesOk) ==
    /\ app = "lab5"
    /\ request' = <<>>
    /\ UNCHANGED <<summary_src, stream>>
    /\ IF user_input = ""
       THEN /\ outcome' = "warning"
            /\ calls' = 0
            /\ ResetTool
       ELSE IF VendorKey(vendor) \notin secrets
       THEN /\ outcome' = "error"
            /\ calls' = 0
            /\ ResetTool
       ELSE IF ~fst.ok
       THEN /\ outcome' = "error"
            /\ calls' = 1
            /\ ResetTool
       ELSE LET q == <<user_input>>
                r == CASE vendor = "OpenAI" ->
                            run_openai_conversation(q, fst.blocks, w, snd, secrets)
                       [] vendor = "Anthropic" ->
                            run_anthropic_conversation(q, fst.blocks, w, snd, secrets)
                       [] OTHER ->
                            run_google_conversation(q, fst.blocks, w, snd, secrets,
                                                    fcRaises, typesOk)
            IN  /\ first_response' = <<fst.blocks>>
                /\ weather_calls' = r.weather
                /\ weather_reply' =
                      IF Len(r.weather) = 0 THEN "none"
                      ELSE IF "OPENWEATHER_API_KEY" \notin secrets THEN "nokey"
                      ELSE w.kind
                /\ second_messages' = r.second
                /\ result' = r.result
                /\ calls' = r.calls
                /\ outcome' = IF r.raised THEN "error" ELSE "answer"
    /\ UNCHANGED <<lab6Vars, docVars, app, secrets, sessionVars, lab3Widgets, lab4Widgets,
                   lab5Widgets, bufVars>>

Lab5Next ==
    \/ \E v \in Vendors : Lab5SelectVendor(v)
    \/ \E t \in {"", DefaultQuestion} : Lab5SetInput(t)
    \/ \E fst \in FirstOutcomes(vendor), w \in WeatherOutcomes, snd \in ApiOutcomes,
          fcRaises \in BOOLEAN, typesOk \in BOOLEAN :
          Lab5GetSuggestion(fst, w, snd, fcRaises, typesOk)

\* ============================================ the buffer policies alone
\* Histories handed to the policies: n messages, roles alternating from
\* "user", contents cycling through BufTexts from offset o with stride k.
BufTexts == << <<"a">>, <<"PASSAGE">>, <<"LONGQ">>, <<"LONGR", "MORE_INFO">>,
               <<"HUGE">> >>
GenHistory(n, k, o) ==
    [i \in 1..n |-> Msg(IF i % 2 = 1 THEN "user" ELSE "assistant",
                        BufTexts[((i * k + o) % Len(BufTexts)) + 1])]
BufHistories ==
    { GenHistory(n, k, o) : n \in 0..MaxHist, k \in 0..2, o \in 0..(Len(BufTexts) - 1) }
\* values of the lab3 number input (min 100, max 4000)
BufMaxTokens == {100, 1000, 4000}

InitBuffer ==
    /\ app = "buffer"
    /\ secrets = AllKeys
    /\ bufH \in BufHistories
    /\ InitCommon

\* lab3 lines 99-111 applied to bufH
BufLab3(bt, mt) ==
    /\ app = "buffer"
    /\ bufPolicy = "none"
    /\ buffer_type' = bt
    /\ max_tokens' = IF bt = TokenType THEN mt ELSE 0
    /\ bufPolicy' = IF bt = TokenType THEN "lab3-token" ELSE "lab3-count"
    /\ bufLimit' = IF bt = TokenType THEN mt ELSE Lab3Count
    /\ bufOut' = Lab3Buffer(bufH, bt, mt)
    /\ UNCHANGED <<lab6Vars, docVars, app, secrets, sessionVars, lab4Widgets, lab5Widgets,
                   obsVars, toolVars, bufH>>

\* lab4 lines 132-147 applied to bufH
BufLab4(mem, p) ==
    /\ app = "buffer"
    /\ bufPolicy = "none"
    /\ memory_type' = mem
    /\ llm_provider' = p
    /\ bufPolicy' = IF mem = MemTokens THEN "lab4-token" ELSE "lab4-count"
    /\ bufLimit' = IF mem = MemTokens THEN Lab4Budget ELSE Lab4Count
    /\ bufOut' = Lab4Buffer(bufH, mem, SelectedModel(p))
    /\ token_count' = Lab4TokenCount(bufH, mem, SelectedModel(p))
    /\ UNCHANGED <<lab6Vars, docVars, app, secrets, messages, last_question, conversation_summary,
                   lab3Widgets, url1, url2, lab5Widgets, obsVars, toolVars, bufH>>

NextBuffer ==
    \/ \E bt \in {CountType, TokenType}, mt \in BufMaxTokens : BufLab3(bt, mt)
    \/ \E mem \in {Mem6, MemTokens}, p \in Providers : BufLab4(mem, p)

SpecBuffer == InitBuffer /\ [][NextBuffer]_vars

\* the tokenizer model the applied policy counted with
BufModel == IF bufPolicy = "lab3-token" THEN Lab3Model ELSE SelectedModel(llm_provider)
BufCounted == bufPolicy \in {"lab3-count", "lab4-count"}
BufTokened == bufPolicy \in {"lab3-token", "lab4-token"}

Next == Lab3Next \/ Lab4Next \/ Lab5Next
Spec == Init /\ [][Next]_vars

\* The same pages when the summarization call never raises and genai.types
\* offers the classes the Google handler builds its second message from.
NominalNext ==
    \/ Lab3Next
    \/ \E p \in Providers : Lab4SelectProvider(p)
    \/ \E m \in MemoryTypes : Lab4SelectMemory(m)
    \/ \E u \in UrlChoices : Lab4SetUrls(u[1], u[2])
    \/ \E p \in Lab4Prompts, st \in StreamOutcomes,
          sm \in {o \in SummaryOutcomes : o.ok} : Lab4Submit(p, st, sm)
    \/ \E v \in Vendors : Lab5SelectVendor(v)
    \/ \E t \in {"", DefaultQuestion} : Lab5SetInput(t)
    \/ \E fst \in FirstOutcomes(vendor), w \in WeatherOutcomes, snd \in ApiOutcomes,
          fcRaises \in BOOLEAN :
          Lab5GetSuggestion(fst, w, snd, fcRaises, TRUE)

SpecNominal == Init /\ [][NominalNext]_vars


\* ================================================================ lab6
chatVars == <<sessionVars, lab3Widgets, lab4Widgets, lab5Widgets, obsVars,
              toolVars, bufVars>>

\* Model output is a string of symbols: "m" is a member such as
\* "verdict": "True", "v" a scalar JSON value, "x" a run of prose, and
\* "{", "}", "[", "]", "," are themselves.
JsonSyms == {"{", "}", "m", "x"}
RECURSIVE SeqsUpTo(_, _)
SeqsUpTo(S, n) ==
    IF n = 0 THEN {<<>>}
    ELSE LET shorter == SeqsUpTo(S, n - 1)
         IN  shorter \cup {Append(s, c) : s \in {t \in shorter : Len(t) = n - 1}, c \in S}

\* what response.output_text may hold
Lab6Outputs ==
    SeqsUpTo(JsonSyms, MaxOut)
    \cup { <<"v">>,
           <<"x", "{", "m", "}", "x">>,
           <<"[", "{", "m", "}", "]">>,
           <<"{", "m", "}", "{", "m", "}">>,
           <<"x", "{", "m", ",", "m", "}">>,
           <<"{", "m", ",", "m", "}", "x", "}">> }
\* client.responses.create raises, or returns this output_text
Lab6ApiOutcomes ==
    {[ok |-> FALSE, text |-> <<>>]} \cup {[ok |-> TRUE, text |-> t] : t \in Lab6Outputs}
Lab6Claims == { <<>>, <<"c">> }

\* str.find / str.rfind: the 0-based index of the first / last c, or -1
Find(s, c) ==
    IF \E i \in 1..Len(s) : s[i] = c
    THEN (CHOOSE i \in 1..Len(s) : s[i] = c /\ \A j \in 1..(i - 1) : s[j] # c) - 1
    ELSE -1
RFind(s, c) ==
    IF \E i \in 1..Len(s) : s[i] = c
    THEN (CHOOSE i \in 1..Len(s) : s[i] = c /\ \A j \in (i + 1)..Len(s) : s[j] # c) - 1
    ELSE -1
\* s[a:b] for 0 <= a, 0 <= b
Slice(s, a, b) == IF a < Min(b, Len(s)) THEN SubSeq(s, a + 1, Min(b, Len(s))) ELSE <<>>

\* The JSON grammar on the symbols: an object is "{" "}" or "{" members "}"
\* with members separated by ","; an array is "[" value "]".
IsMembers(s) ==
    /\ Len(s) % 2 = 1
    /\ \A i \in 1..Len(s) : s[i] = (IF i % 2 = 1 THEN "m" ELSE ",")
IsJsonObject(s) ==
    /\ Len(s) >= 2
    /\ s[1] = "{"
    /\ s[Len(s)] = "}"
    /\ (Len(s) = 2 \/ IsMembers(SubSeq(s, 2, Len(s) - 1)))
IsJsonValue(s) ==
    \/ s = <<"v">>
    \/ IsJsonObject(s)
    \/ Len(s) >= 3 /\ s[1] = "[" /\ s[Len(s)] = "]"
       /\ IsJsonObject(SubSeq(s, 2, Len(s) - 1))
\* json.loads: raises JSONDecodeError, or returns the parsed value, held as
\* the text it was parsed from
json_loads(s) ==
    IF IsJsonValue(s)
    THEN [ok |-> TRUE, value |-> [parsed |-> s]]
    ELSE [ok |-> FALSE, value |-> [parsed |-> <<>>]]

\* lines 105-116: json_start, json_end, clean_json_string and its parse
Lab6Parse(result_json_string) ==
    LET json_start == Find(result_json_string, "{")
        json_end == RFind(result_json_string, "}") + 1
    IN  IF json_start = -1 \/ json_end = 0
        THEN [ok |-> FALSE, value |-> [parsed |-> <<>>]]
        ELSE json_loads(Slice(result_json_string, json_start, json_end))

\* the history when the result is appended instead
InsertLast(h, r) == Append(h, r)
\* claim_history.insert(0, result_data)
InsertFirst(h, r) == <<r>> \o h

Lab6SetClaim(c) ==
    /\ app = "lab6"
    /\ c # user_claim
    /\ user_claim' = c
    /\ output_text' = <<>>
    /\ raw_shown' = <<>>
    /\ shown' = IF "OPENAI_API_KEY" \in secrets THEN "idle" ELSE "client_error"
    /\ UNCHANGED <<claim_history, app, secrets, chatVars, docVars>>

\* The "Check Fact" button.  api.ok = FALSE: responses.create raises.
Lab6CheckFact(api) ==
    /\ app = "lab6"
    /\ Len(claim_history) < MaxChecks
    /\ IF "OPENAI_API_KEY" \notin secrets
       THEN /\ shown' = "client_error"
            /\ output_text' = <<>>
            /\ raw_shown' = <<>>
            /\ UNCHANGED claim_history
       ELSE IF user_claim = <<>>
       THEN /\ shown' = "warning"
            /\ output_text' = <<>>
            /\ raw_shown' = <<>>
            /\ UNCHANGED claim_history
       ELSE IF ~api.ok
       THEN /\ shown' = "api_error"
            /\ output_text' = <<>>
            /\ raw_shown' = <<>>
            /\ UNCHANGED claim_history
       ELSE /\ output_text' = <<api.text>>
            /\ IF Len(api.text) = 0
               THEN /\ shown' = "nothing"
                    /\ raw_shown' = <<>>
                    /\ UNCHANGED claim_history
               ELSE LET got == Lab6Parse(api.text) IN
                    IF got.ok
                    THEN /\ claim_history' = InsertFirst(claim_history, got.value)
                         /\ shown' = "result"
                         /\ raw_shown' = <<>>
                    ELSE /\ shown' = "parse_error"
                         /\ raw_shown' = <<api.text>>
                         /\ UNCHANGED claim_history
    /\ UNCHANGED <<user_claim, app, secrets, chatVars, docVars>>

InitLab6 ==
    /\ app = "lab6"
    /\ secrets \in {AllKeys, AllKeys \ {"OPENAI_API_KEY"}}
    /\ bufH = <<>>
    /\ InitCommon

NextLab6 ==
    \/ \E c \in Lab6Claims : Lab6SetClaim(c)
    \/ \E api \in Lab6ApiOutcomes : Lab6CheckFact(api)

SpecLab6 == InitLab6 /\ [][NextLab6]_vars


\* ================================== lab1 and streamlit_app (documents)
DocApps == {"lab1", "streamlit_app"}

\* A file name is a string of symbols: "." and the words between the dots.
\* A file holds the bytes of a text (decodable or not) or the pages of a
\* PDF (readable or not); a page is the text extract_text returns for it,
\* the empty string for a page without extractable text.
DocFile(name, text, decodable, pages, readable) ==
    [name |-> name, text |-> text, decodable |-> decodable,
     pages |-> pages, readable |-> readable]
PageTexts == { <<>>, <<"p">>, <<"q", "r">> }
PageSeqs == SeqsUpTo(PageTexts, MaxPages)
DocFiles ==
    { DocFile(<<"a", ".", "txt">>, t, TRUE, <<>>, TRUE) : t \in {<<>>, <<"t">>} }
    \cup { DocFile(<<"a", ".", "txt">>, <<>>, FALSE, <<>>, TRUE),
           DocFile(<<"a", ".", "TXT">>, <<"t">>, TRUE, <<>>, TRUE),
           DocFile(<<"a", ".", "Pdf">>, <<>>, TRUE, <<<<"p">>>>, TRUE),
           DocFile(<<"b", ".", "txt", ".", "PDF">>, <<>>, TRUE, <<<<"p">>>>, TRUE),
           DocFile(<<"a", ".", "docx">>, <<"t">>, TRUE, <<>>, TRUE),
           DocFile(<<"txt">>, <<"t">>, TRUE, <<>>, TRUE) }
    \cup { DocFile(<<"a", ".", "pdf">>, <<>>, TRUE, ps, TRUE) : ps \in PageSeqs }
    \cup { DocFile(<<"a", ".", "pdf">>, <<>>, TRUE, <<>>, FALSE) }
DocQuestions == { <<>>, <<"q?">> }
DocKeys == { "", "sk" }
\* chat.completions.create raises, or the stream is written out
DocApiOutcomes == { [ok |-> FALSE], [ok |-> TRUE] }

\* str.lower() on the words that occur
LowerExt(w) ==
    CASE w = "TXT" -> "txt" [] w = "PDF" -> "pdf" [] w = "Pdf" -> "pdf" [] OTHER -> w
\* str.endswith
str_endswith(s, suffix) ==
    Len(s) >= Len(suffix) /\ SubSeq(s, Len(s) - Len(suffix) + 1, Len(s)) = suffix
\* st.file_uploader(type=("txt", "pdf")): the widget takes a file only when
\* its lower-cased name ends with one of the extensions
UploaderAccepts(name) ==
    LET lowered == [i \in 1..Len(name) |-> LowerExt(name[i])]
    IN  str_endswith(lowered, <<".", "txt">>) \/ str_endswith(lowered, <<".", "pdf">>)
\* name.split('.')[-1]
SplitLast(name) ==
    LET dots == {i \in 1..Len(name) : name[i] = "."}
    IN  IF dots = {} THEN name
        ELSE SubSeq(name, (CHOOSE i \in dots : \A j \in dots : j <= i) + 1, Len(name))

\* x or ""
OrEmpty(x) == IF Len(x) = 0 THEN <<>> ELSE x
RECURSIVE PdfTextNewestFirst(_, _)
\* the loop when each page is put in front of the document
PdfTextNewestFirst(pages, doc) ==
    IF Len(pages) = 0 THEN doc
    ELSE PdfTextNewestFirst(Tail(pages), Head(pages) \o doc)
RECURSIVE PdfText(_, _)
\* for page in pdf_reader.pages: document += page.extract_text()
PdfText(pages, doc) ==
    IF Len(pages) = 0 THEN doc
    ELSE PdfText(Tail(pages), doc \o Head(pages))
RECURSIVE PdfTextOrEmpty(_, _)
\* for page in pdf_reader.pages: document += page.extract_text() or ""
PdfTextOrEmpty(pages, doc) ==
    IF Len(pages) = 0 THEN doc
    ELSE PdfTextOrEmpty(Tail(pages), doc \o OrEmpty(Head(pages)))

\* What loading leaves: document (<<>> is None), the errors shown, and
\* whether an exception left the block.
Loaded(d, errors, raised) == [document |-> d, shown |-> errors, raised |-> raised]
\* lab1 when any other name is read as text
Lab1LoadLenient(f) ==
    IF str_endswith(f.name, <<".", "pdf">>)
    THEN IF f.readable THEN Loaded(<<PdfTextOrEmpty(f.pages, <<>>)>>, <<>>, FALSE)
         ELSE Loaded(<<>>, <<>>, TRUE)
    ELSE IF f.decodable THEN Loaded(<<f.text>>, <<>>, FALSE)
         ELSE Loaded(<<>>, <<>>, TRUE)
\* lab1 lines 50-59
Lab1Load(f) ==
    IF str_endswith(f.name, <<".", "txt">>)
    THEN IF f.decodable THEN Loaded(<<f.text>>, <<>>, FALSE)
         ELSE Loaded(<<>>, <<>>, TRUE)
    ELSE IF str_endswith(f.name, <<".", "pdf">>)
    THEN IF f.readable THEN Loaded(<<PdfTextOrEmpty(f.pages, <<>>)>>, <<>>, FALSE)
         ELSE Loaded(<<>>, <<>>, TRUE)
    ELSE Loaded(<<>>, <<"Unsupported file type.">>, FALSE)
\* streamlit_app lines 44-58
AppLoad(f) ==
    LET file_extension == SplitLast(f.name) IN
    IF file_extension = <<"txt">>
    THEN IF f.decodable THEN Loaded(<<f.text>>, <<>>, FALSE)
         ELSE Loaded(<<>>, <<>>, TRUE)
    ELSE IF file_extension = <<"pdf">>
    THEN IF f.readable THEN Loaded(<<PdfText(f.pages, <<>>)>>, <<>>, FALSE)
         ELSE Loaded(<<>>, <<"Error reading PDF file">>, FALSE)
    ELSE Loaded(<<>>, <<"Unsupported file type.">>, FALSE)

\* the one user message of the request
DocMessages(d, q) ==
    <<Msg("user", <<"Here's a document: ">> \o d \o <<" \n\n---\n\n ">> \o q)>>

\* One run of the page with these widget values.
DocRerun(key, file, q, api) ==
    IF key = ""
    THEN /\ document' = <<>>
         /\ doc_request' = <<>>
         /\ doc_shown' = <<"Please add your OpenAI API key to continue.">>
    ELSE IF file = <<>> \/ q = <<>>
    THEN /\ document' = <<>>
         /\ doc_request' = <<>>
         /\ doc_shown' = <<>>
    ELSE LET ld == IF app = "lab1" THEN Lab1Load(file[1]) ELSE AppLoad(file[1])
             failed == IF app = "lab1" THEN "An error occurred"
                       ELSE "Error generating response"
         IN  /\ document' = ld.document
             /\ IF ld.raised
                THEN /\ doc_request' = <<>>
                     /\ doc_shown' = <<IF app = "lab1" THEN "An error occurred"
                                       ELSE "uncaught exception">>
                ELSE IF ld.document # <<>> /\ Len(ld.document[1]) > 0
                THEN /\ doc_request' = <<DocMessages(ld.document[1], q)>>
                     /\ doc_shown' = ld.shown \o <<IF api.ok THEN "response" ELSE failed>>
                ELSE /\ doc_request' = <<>>
                     /\ doc_shown' = ld.shown

DocSetKey(k, api) ==
    /\ app \in DocApps
    /\ k # doc_key
    /\ doc_key' = k
    /\ IF k = ""
       THEN uploaded_file' = <<>> /\ question' = <<>>
       ELSE UNCHANGED <<uploaded_file, question>>
    /\ DocRerun(k, uploaded_file', question', api)
    /\ UNCHANGED <<app, secrets, chatVars, lab6Vars>>

DocUpload(f, api) ==
    /\ app \in DocApps
    /\ doc_key # ""
    /\ UploaderAccepts(f.name)
    /\ uploaded_file # <<f>>
    /\ uploaded_file' = <<f>>
    /\ DocRerun(doc_key, <<f>>, question, api)
    /\ UNCHANGED <<doc_key, question, app, secrets, chatVars, lab6Vars>>

DocSetQuestion(q, api) ==
    /\ app \in DocApps
    /\ doc_key # ""
    /\ uploaded_file # <<>>
    /\ q # question
    /\ question' = q
    /\ DocRerun(doc_key, uploaded_file, q, api)
    /\ UNCHANGED <<doc_key, uploaded_file, app, secrets, chatVars, lab6Vars>>

InitDocs ==
    /\ app \in DocApps
    /\ secrets = AllKeys
    /\ bufH = <<>>
    /\ InitCommon

NextDocs ==
    \/ \E k \in DocKeys, api \in DocApiOutcomes : DocSetKey(k, api)
    \/ \E f \in DocFiles, api \in DocApiOutcomes : DocUpload(f, api)
    \/ \E q \in DocQuestions, api \in DocApiOutcomes : DocSetQuestion(q, api)

SpecDocs == InitDocs /\ [][NextDocs]_vars


\* =============================================================== claims

\* C2: the token-policy buffer of a history H and budget B is a contiguous
\* suffix of H in its original order, its summed per-message token count is
\* at most B, and it is maximal: when a message of H is excluded, adding the
\* next-older excluded message would exceed B.
C2_TokenBufferMaximalSuffix ==
    BufTokened =>
        /\ IsSuffix(bufOut, bufH)
        /\ TokensOf(bufOut, BufModel) <= bufLimit
        /\ Len(bufOut) < Len(bufH) =>
              TokensOf(bufOut, BufModel)
                + get_token_count(bufH[Len(bufH) - Len(bufOut)].content, BufModel)
              > bufLimit

\* a lab4 walk that stopped inside the history with a non-empty buffer
C2_Witness ==
    /\ bufPolicy = "lab4-token"
    /\ Len(bufOut) >= 2
    /\ Len(bufOut) < Len(bufH)

\* C3: the count-policy buffer (K = 20 in lab3, K = 6 in lab4) has exactly
\* min(K, len(H)) elements, the trailing elements of H in their order.
C3_CountBufferTrailing ==
    BufCounted =>
        /\ bufLimit = (IF bufPolicy = "lab3-count" THEN 20 ELSE 6)
        /\ Len(bufOut) = Min(bufLimit, Len(bufH))
        /\ \A i \in 1..Len(bufOut) :
              bufOut[i] = bufH[Len(bufH) - Len(bufOut) + i]

\* a lab3 history longer than K, cut to its last 20 messages
C3_Witness ==
    /\ bufPolicy = "lab3-count"
    /\ Len(bufH) > 20
    /\ Len(bufOut) = 20


Chat == app \in {"lab3", "lab4"}
\* a step in which a chat message was submitted and a request composed
Submitted == Chat /\ Len(messages') > Len(messages)
\* the prompt submitted in such a step
SubmittedPrompt == messages'[Len(messages) + 1].content
\* a submitted turn whose chat-completion call or stream raised
TurnFailed == Submitted /\ outcome' = "error" /\ calls' = 1

\* C4: building the buffer and the request never mutates the session
\* history; it only grows by appends, so every earlier history is a prefix
\* of every later one.
C4_HistoryAppendOnly ==
    [][Chat => IsPrefix(messages, messages')]_vars

\* lab3 under "Token Limit": the request holds the new prompt alone while
\* the stored history keeps all four messages
C4_Witness ==
    /\ app = "lab3"
    /\ buffer_type = TokenType
    /\ outcome = "answer"
    /\ Len(messages) = 4
    /\ Len(request) = 1

\* C5 as stated: after a failed chat-completion call the session state
\* (history, last_question, conversation_summary, token_count) is what it
\* was before the message was submitted.
C5_FailedTurnRestoresState ==
    [][TurnFailed => UNCHANGED sessionVars]_vars

\* C5 as amended: after a failed chat-completion call no assistant message
\* is appended and last_question and conversation_summary are unchanged; the
\* history is the prior history plus the submitted user message (lab3 leaves
\* token_count alone, lab4 has already stored the new buffer's count).
C5_FailedTurnKeepsUserMessage ==
    [][TurnFailed =>
          /\ Len(messages') = Len(messages) + 1
          /\ IsPrefix(messages, messages')
          /\ messages'[Len(messages')].role = "user"
          /\ last_question' = last_question
          /\ conversation_summary' = conversation_summary
          /\ token_count' = IF app = "lab4" /\ memory_type = MemTokens
                            THEN TokensOf(TokenBuffer(messages, 2000,
                                     SelectedModel(llm_provider)).buf,
                                     SelectedModel(llm_provider))
                            ELSE IF app = "lab4" THEN 0 ELSE token_count]_vars

\* a lab4 turn that failed after an answered one
C5_Witness ==
    /\ app = "lab4"
    /\ outcome = "error"
    /\ calls = 1
    /\ Len(messages) = 3
    /\ messages[3].role = "user"

\* position of the most recent assistant message of a history (0: none)
LastAssistant(H) ==
    IF \E i \in 1..Len(H) : H[i].role = "assistant"
    THEN CHOOSE i \in 1..Len(H) :
            /\ H[i].role = "assistant"
            /\ \A j \in (i + 1)..Len(H) : H[j].role # "assistant"
    ELSE 0

\* a lab4 step whose request stands the stored summary in for the history
SummarySubstituted ==
    /\ app = "lab4"
    /\ Submitted
    /\ memory_type = MemSummary
    /\ Len(conversation_summary) > 0

Contains(t, sym) == \E i \in 1..Len(t) : t[i] = sym
EndsWith(t, e) == IsSuffix(e, t)

\* C8 as stated: with a stored summary the request carries the summary as a
\* synthetic system-role message and also the tail of the most recent
\* history messages verbatim, followed by the new user message.
C8_SummaryPlusTail ==
    [][SummarySubstituted =>
          /\ \E i \in 1..Len(request') :
                /\ request'[i].role = "system"
                /\ EndsWith(request'[i].content, conversation_summary)
          /\ \E i \in 1..Len(request') : request'[i] = messages[Len(messages)]
          /\ EndsWith(request'[Len(request')].content, SubmittedPrompt)]_vars

\* C8 as amended: with a stored summary the request carries the summary in
\* place of the whole history (a system-role message for OpenAI, the end of
\* the system prompt for Claude, inside the single prompt text for Gemini),
\* includes no history message verbatim, and ends with the new user message.
C8_SummaryReplacesHistory ==
    [][SummarySubstituted =>
          /\ \E i \in 1..Len(request') :
                /\ request'[i].role \in {"system", "prompt"}
                /\ \A k \in 1..Len(conversation_summary) :
                      Contains(request'[i].content, conversation_summary[k])
                /\ llm_provider # "Google Gemini" =>
                      EndsWith(request'[i].content, conversation_summary)
          /\ \A i \in 1..Len(request'), j \in 1..Len(messages) :
                request'[i] # messages[j]
          /\ Len(request') = (CASE llm_provider = "OpenAI" -> 3
                                [] llm_provider = "Anthropic Claude" -> 2
                                [] OTHER -> 1)
          /\ request'[Len(request')].role =
                (IF llm_provider = "Google Gemini" THEN "prompt" ELSE "user")
          /\ EndsWith(request'[Len(request')].content, SubmittedPrompt)]_vars

\* an OpenAI request of the second turn: system prompt, summary, user turn
C8_Witness ==
    /\ app = "lab4"
    /\ llm_provider = "OpenAI"
    /\ memory_type = MemSummary
    /\ Len(messages) = 4
    /\ Len(request) = 3
    /\ request[2].role = "system"
    /\ EndsWith(request[2].content, <<"SUMMARY">>)

\* C9: whenever the stored summary is substituted for history in a request,
\* it was produced from the full history as of the most recent assistant
\* reply.
C9_SummaryCoversHistory ==
    [][SummarySubstituted => summary_src = LastAssistant(messages)]_vars

\* C10: after the LLM answers a new question Q, last_question holds Q; an
\* affirmative reply to the follow-up is sent as the detail prompt about Q
\* and leaves last_question at Q.
C10_FollowUpRemembersQuestion ==
    [][(app = "lab3" /\ Submitted /\ outcome' = "answer") =>
          LET yes == /\ Len(last_question) > 0
                     /\ Strip(Lower(SubmittedPrompt)) \in YesWords
          IN  /\ last_question' =
                    IF yes THEN last_question ELSE <<SubmittedPrompt>>
              /\ yes => request'[Len(request')].content
                           = DetailPrompt(last_question[1])]_vars

\* ---- lab5
Lab5Answered == app = "lab5" /\ Len(first_response) > 0
RequestedCalls == ToolCalls(first_response[1])

\* C1: whenever the first response requests a tool call with some
\* arguments, get_current_weather is invoked exactly once with exactly those
\* arguments, and the second call's message list holds the tool-call record
\* and then the tool result; also for a response with several requests.
C1_ToolRoundTrip ==
    (Lab5Answered /\ Len(RequestedCalls) > 0) =>
        /\ \A i \in 1..Len(RequestedCalls) :
              Cardinality({j \in 1..Len(weather_calls) :
                              weather_calls[j] = RequestedCalls[i].args[1]}) = 1
        /\ calls = 2 =>
              \E i, j \in 1..Len(second_messages) :
                  /\ i < j
                  /\ second_messages[i].kind = "tool_calls"
                  /\ second_messages[i].payload = first_response[1]
                  /\ second_messages[j].kind = "tool_result"

\* C6: when the first response requests no tool invocation, the handler
\* returns that response's text as the final answer after a single call.
C6_NoToolIsTerminal ==
    (Lab5Answered /\ Len(RequestedCalls) = 0 /\ Len(first_response[1]) > 0) =>
        /\ result = <<first_response[1][1].text>>
        /\ calls = 1
        /\ outcome = "answer"

\* C7: a user action makes a single attempt: lab3 issues at most one
\* completion call per action; a lab5 action issues at most two, and one
\* that ends with an answer issued exactly one when no tool was requested
\* and exactly two when a tool was requested; a lab5 action on a question
\* ends with a rendered answer or a rendered error.
C7_SingleAttempt ==
    /\ app = "lab3" => calls <= 1
    /\ app = "lab5" =>
          /\ calls <= 2
          /\ outcome \in {"idle", "warning", "answer", "error"}
          /\ (Lab5Answered /\ outcome = "answer") =>
                calls = (IF Len(RequestedCalls) > 0 THEN 2 ELSE 1)

\* ---------------------------------------------------------------- lab6
\* The text from the first "{" through the last "}" of t (empty when one
\* of them is missing or the last "}" precedes the first "{").
HasBraces(t) == (\E i \in 1..Len(t) : t[i] = "{") /\ (\E j \in 1..Len(t) : t[j] = "}")
BraceSpan(t) ==
    IF ~HasBraces(t) THEN <<>>
    ELSE LET opens == {i \in 1..Len(t) : t[i] = "{"}
             closes == {j \in 1..Len(t) : t[j] = "}"}
             first == CHOOSE i \in opens : \A k \in opens : i <= k
             last == CHOOSE j \in closes : \A k \in closes : k <= j
         IN  IF first <= last THEN SubSeq(t, first, last) ELSE <<>>
\* this step is a "Check Fact" run for which the model returned an output
GotOutput == output_text' # <<>> /\ app = "lab6"

\* C11: when the model's output is not well-formed JSON as a whole, exactly
\* the text from its first "{" through its last "}" is parsed (and its value
\* is what enters the history); when the braces are missing or that text does
\* not parse, the parse error is shown together with the raw output and
\* claim_history is left unchanged.
C11_BraceRecovery ==
    [][(GotOutput /\ ~IsJsonValue(output_text'[1])) =>
          LET t == output_text'[1] IN
          IF HasBraces(t) /\ IsJsonValue(BraceSpan(t))
          THEN claim_history' = <<[parsed |-> BraceSpan(t)]>> \o claim_history
          ELSE /\ shown' = "parse_error"
               /\ raw_shown' = <<t>>
               /\ claim_history' = claim_history]_vars

\* C15: a check whose output parsed puts its result at index 0 of
\* claim_history (the "Latest Result") in front of the earlier entries, which
\* keep their order; an empty claim, an API failure or a parse failure leaves
\* claim_history unchanged; no entry is ever removed or reordered.
C15_HistoryNewestFirst ==
    [][app = "lab6" =>
          IF shown' = "result"
          THEN /\ Len(claim_history') = Len(claim_history) + 1
               /\ claim_history'[1] = [parsed |-> BraceSpan(output_text'[1])]
               /\ Tail(claim_history') = claim_history
          ELSE claim_history' = claim_history]_vars
\* two checks parsed, with different results: the newer one is at index 0
C15_Witness ==
    /\ app = "lab6"
    /\ shown = "result"
    /\ Len(claim_history) = 2
    /\ claim_history[1] # claim_history[2]
    /\ claim_history[1] = [parsed |-> BraceSpan(output_text[1])]
    /\ output_text[1] # BraceSpan(output_text[1])

\* ------------------------------------------------ lab1 and streamlit_app
\* the file name ends with a dot followed by the extension e
HasExtension(name, e) ==
    Len(name) >= 2 /\ name[Len(name) - 1] = "." /\ name[Len(name)] = e
\* the page processed a file and a question in its last run
DocProcessed ==
    app \in DocApps /\ doc_key # "" /\ uploaded_file # <<>> /\ question # <<>>
DocErrors == {doc_shown[i] : i \in 1..Len(doc_shown)}

\* C12: when the uploaded file's name has neither the txt nor the pdf
\* extension, no chat-completion request is issued, and the run that
\* processes the file and a question shows "Unsupported file type.".
C12_UnsupportedFileRejected ==
    (app \in DocApps /\ uploaded_file # <<>>
       /\ ~HasExtension(uploaded_file[1].name, "txt")
       /\ ~HasExtension(uploaded_file[1].name, "pdf")) =>
        /\ doc_request = <<>>
        /\ DocProcessed => "Unsupported file type." \in DocErrors
\* a file whose name passed the uploader with an upper-case extension was
\* processed with a question and rejected
C12_Witness ==
    /\ DocProcessed
    /\ uploaded_file[1].name = <<"a", ".", "TXT">>
    /\ doc_shown = <<"Unsupported file type.">>
    /\ doc_request = <<>>

RECURSIVE SumLen(_)
SumLen(pages) == IF Len(pages) = 0 THEN 0 ELSE Len(Head(pages)) + SumLen(Tail(pages))
\* a PDF the reader could open was processed in the last run
PdfProcessed ==
    /\ DocProcessed
    /\ HasExtension(uploaded_file[1].name, "pdf")
    /\ uploaded_file[1].readable

\* C13: for any sequence of PDF pages the loaded document is the in-order
\* concatenation of the per-page texts: its length is the sum of the page
\* lengths and each page's text sits at the offset of the pages before it; a
\* page without text contributes nothing and causes no error.
C13_DocumentIsPageConcatenation ==
    PdfProcessed =>
        LET pages == uploaded_file[1].pages IN
        /\ document # <<>>
        /\ Len(document[1]) = SumLen(pages)
        /\ \A i \in 1..Len(pages) :
              LET before == SumLen(SubSeq(pages, 1, i - 1))
              IN  SubSeq(document[1], before + 1, before + Len(pages[i])) = pages[i]
        /\ DocErrors \subseteq {"response", "An error occurred", "Error generating response"}
        /\ doc_request = <<>> <=> SumLen(pages) = 0
\* streamlit_app loaded a PDF whose middle page has no text, between two
\* pages with different texts
C13_Witness ==
    /\ PdfProcessed
    /\ app = "streamlit_app"
    /\ Len(uploaded_file[1].pages) = 3
    /\ uploaded_file[1].pages[1] = <<"q", "r">>
    /\ uploaded_file[1].pages[2] = <<>>
    /\ uploaded_file[1].pages[3] = <<"p">>
    /\ document = << <<"q", "r", "p">> >>

\* ------------------------------------------------------- lab4 streaming
RECURSIVE ChunkTexts(_)
\* the texts of the received chunks, in arrival order
ChunkTexts(chunks) ==
    IF Len(chunks) = 0 THEN <<>>
    ELSE ChunkTexts(AllButLast(chunks)) \o chunks[Len(chunks)].text
\* the stream of this lab4 turn did not reach its end: the request raised,
\* the stream raised after its chunks, or (Gemini) reading a chunk's text raised
StreamFailed(st) ==
    \/ ~st.created
    \/ st.broke
    \/ llm_provider = "Google Gemini" /\ \E i \in 1..Len(st.chunks) : ~st.chunks[i].has

\* C14: in a lab4 turn that issues its request, the assistant message is
\* appended only when the stream was consumed to its end, and its content is
\* the concatenation of the received text chunks in arrival order; when the
\* stream fails, the history gains the user message only (no assistant
\* message, no partial text).
C14_AssistantAfterFullStream ==
    [][(app = "lab4" /\ stream' # <<>>) =>
          /\ Len(messages') > Len(messages)
          /\ messages'[Len(messages) + 1].role = "user"
          /\ SubSeq(messages', 1, Len(messages)) = messages
          /\ IF StreamFailed(stream'[1])
             THEN Len(messages') = Len(messages) + 1
             ELSE /\ Len(messages') = Len(messages) + 2
                  /\ messages'[Len(messages')] =
                        Msg("assistant", ChunkTexts(stream'[1].chunks))]_vars
\* a stream of three chunks, one without text, was consumed to its end and
\* the reply stored is the two texts in arrival order
C14_Witness ==
    /\ app = "lab4"
    /\ stream # <<>>
    /\ Len(stream[1].chunks) = 3
    /\ ~stream[1].broke
    /\ Len(messages) >= 2
    /\ messages[Len(messages)] = Msg("assistant", <<"r", "s">>)

\* ------------------------------------------------- lab3 follow-up, "no"
\* The follow-up question is pending: the last message of the history is a
\* reply that ends with "DO YOU WANT MORE INFO?", which is when last_question
\* is meant to hold the question it was asked about.
FollowUpPending ==
    /\ Len(messages) > 0
    /\ messages[Len(messages)].role = "assistant"
    /\ EndsWith(messages[Len(messages)].content, <<"MORE_INFO">>)

WeatherFailed == app = "lab5" /\ weather_reply \in {"nokey", "non200"}
WeatherFailureText ==
    IF weather_reply = "nokey" THEN "OpenWeather API key not found in secrets."
    ELSE "API request failed for location"

Lab3Sent == app = "lab3" /\ Submitted /\ calls' = 1
Lab4Sent == app = "lab4" /\ Submitted /\ stream' # <<>>
\* the messages of a request between its leading system part and its last
\* message
Middle(r, lead) == SubSeq(r, lead + 1, Len(r) - 1)

\* C18: the message list sent to the model ends with exactly one user
\* message for the current turn (lab3: the api_prompt, lab4: the context and
\* question); the raw prompt just stored in the history is not sent as well,
\* and the history messages before it are a contiguous run of the history
\* ending right before the current prompt.  In lab3's token policy a prompt
\* that alone exceeds the budget leaves the api_prompt as the only message.
C18_RequestEndsWithCurrentTurn ==
    [][/\ Lab3Sent =>
            LET yes == /\ Len(last_question) > 0
                       /\ Strip(Lower(SubmittedPrompt)) \in YesWords
                api_prompt == IF yes THEN DetailPrompt(last_question[1])
                              ELSE SubmittedPrompt
            IN  /\ request'[Len(request')] = Msg("user", api_prompt)
                /\ IsSuffix(Middle(request', 0), messages)
                /\ (buffer_type = TokenType
                      /\ get_token_count(SubmittedPrompt, Lab3Model) > max_tokens)
                     => Len(request') = 1
       /\ (Lab4Sent /\ llm_provider # "Google Gemini") =>
            /\ request'[1].role = "system"
            /\ request'[Len(request')].role = "user"
            /\ EndsWith(request'[Len(request')].content,
                        <<"QUESTION:">> \o SubmittedPrompt)
            /\ \/ IsSuffix(Middle(request', 1), messages)
               \/ /\ SummarySubstituted
                  /\ \A i \in 1..Len(Middle(request', 1)) :
                        Middle(request', 1)[i].role = "system"
       /\ (Lab4Sent /\ llm_provider = "Google Gemini") =>
            /\ Len(request') = 1
            /\ EndsWith(request'[1].content, <<"USER QUESTION:">> \o SubmittedPrompt)
            /\ \/ SummarySubstituted
               \/ \E k \in 0..Len(messages) :
                     request'[1].content =
                        SystemPromptText
                        \o JoinLines(SubSeq(messages, Len(messages) - k + 1, Len(messages)))
                        \o <<"CONTEXT FROM URLS:">> \o UrlContext(url1, url2)
                        \o <<"USER QUESTION:">> \o SubmittedPrompt]_vars
\* lab3, token policy, after an answered turn: the new prompt alone exceeds
\* the budget and the request is the api_prompt message only
C18_Witness ==
    /\ app = "lab3"
    /\ buffer_type = TokenType
    /\ max_tokens = 100
    /\ calls = 1
    /\ Len(messages) >= 3
    /\ request = <<Msg("user", <<"LONGQ">>)>>

\* ------------------------------------------------------ lab4 token_count
\* C19: in every reachable lab4 session state token_count is an integer
\* between 0 and 2000, so the sidebar's progress fraction token_count / 2000
\* lies within 0..1, whatever the turns, memory-type selections and failed
\* or stopped turns were.
C19_TokenCountWithinBudget ==
    app = "lab4" => (token_count \in Int /\ 0 <= token_count /\ token_count <= Lab4Budget)
\* the token policy left older messages out: the history holds far more
\* than the budget and the stored count is within it
C19_Witness ==
    /\ app = "lab4"
    /\ memory_type = MemTokens
    /\ token_count > 0
    /\ token_count < Lab4Budget
    /\ TokensOf(messages, SelectedModel(llm_provider)) > Lab4Budget + 900

\* ------------------------------------------------------- role ordering
\* C20 as stated: after any sequence of user actions, failed turns
\* included, the history strictly alternates user, assistant, user, ...
\* starting with a user message.
C20_RolesAlternate ==
    Chat => \A i \in 1..Len(messages) :
                messages[i].role = (IF i % 2 = 1 THEN "user" ELSE "assistant")

\* C20 amended: the history starts with a user message and every assistant
\* message comes right after a user message (never two assistant messages in
\* a row); a turn whose call failed leaves its user message without a reply,
\* so the turn after it puts a second user message next to it.
C20_AssistantFollowsUser ==
    [][Chat =>
          /\ Len(messages') > 0 => messages'[1].role = "user"
          /\ \A i \in 1..Len(messages') :
                messages'[i].role = "assistant" =>
                    (i > 1 /\ messages'[i - 1].role = "user")
          /\ Submitted =>
                /\ messages'[Len(messages) + 1].role = "user"
                /\ IF outcome' = "error" /\ calls' = 1
                   THEN Len(messages') = Len(messages) + 1
                   ELSE /\ Len(messages') = Len(messages) + 2
                        /\ messages'[Len(messages')].role = "assistant"]_vars
\* a failed turn followed by an answered one: user, user, assistant
C20_Witness ==
    /\ Chat
    /\ Len(messages) = 3
    /\ messages[1].role = "user"
    /\ messages[2].role = "user"
    /\ messages[3].role = "assistant"
    /\ outcome = "answer"

====
